---- MODULE Spec2Model ----
(***************************************************************************)
(* KV cache manager for llama.cpp slots (SillyTavern extension).           *)
(*                                                                         *)
(* The model covers the slot registry and acquireSlot (core/slot-manager), *)
(* saveCharacterCache / loadSlotCache (core/cache-operations), the         *)
(* generation interceptor (interceptors/generation-interceptor) and the    *)
(* preload orchestrator (ui/preload).  JavaScript runs one flow at a time: *)
(* every action below is the code between two suspension points (await,    *)
(* timer, event), executed atomically.                                     *)
(***************************************************************************)
EXTENDS Integers, Sequences, FiniteSets, TLC

\* ------------------------------------------------------------------ bounds
MaxSlots == 2          \* the backend reports 0..MaxSlots slots
MaxUsage == 3          \* usage counters are capped here (guard of IncrementUsage)
MaxGen == 2            \* generation requests that may be in flight at once
MaxBatch == 2          \* characters offered for preload in one call
MaxCount == 3          \* message counters are capped here (guard of OnMessageReceived)
MaxInterval == 2       \* the saveInterval setting is 1..MaxInterval
MaxSaving == 2         \* auto-saves that may be in flight at once
MaxFiles == 3          \* snapshot files on disk
MaxTime == 3           \* distinct timestamps
MaxKeep == 2           \* the maxFiles setting is 1..MaxKeep

\* ------------------------------------------------------- program constants
MIN_USAGE_FOR_SAVE == 2

\* --------------------------------------------------------------- universes
Entities == {"A", "B", "C"}      \* normalized character names
NoName == "none"                 \* null / undefined character name
NoSlot == -1                     \* null slot index
GenTypes == {"normal", "quiet", "impersonate"}
Gens == 1..MaxGen
GroupMembers == <<"A", "B", "C", "D">>
\* the characters offered for preload, in order
FullBatch == SubSeq(GroupMembers, 1, MaxBatch)
BatchIdx == 1..Len(FullBatch)    \* position in the batch (the code's i + 1)
Chats == {"chat1", "chat2"}      \* normalized chat ids
Speakers == {"A", "C"}           \* the characters whose messages are received
Batches == {SubSeq(FullBatch, 1, n) : n \in 0..Len(FullBatch)}

VARIABLES
    slotsState,               \* slot-manager: index -> slot record
    currentSlot,              \* generation-interceptor: let currentSlot
    isPreloading,             \* generation-interceptor: let isPreloading
    currentPreloadCharacter,  \* generation-interceptor: let currentPreloadCharacter
    gen,                      \* the generation requests: g -> record
    pl,                       \* preloadCharactersCache: its locals and position
    pl2,                      \* a second call of preloadCharactersCache: its position
    timeoutTimer,             \* preload: the setTimeout behind timeoutPromise, per entity
    cancelCheckInterval,      \* preload: the setInterval behind cancelCheckPromise, per entity
    stopCalls,                \* preload: stopGeneration calls during the current entity's step
    lastRace,                 \* preload: the entity whose race was decided last, and how
    messageCounters,          \* auto-save: let messageCounters, chatId -> name -> count
    currentChat,              \* the host: the chat getNormalizedChatId() names
    autoSaves,                \* auto-save: the incrementMessageCounter calls awaiting their save
    lastAutoSave,             \* auto-save: the save that settled last, and what it reported
    saveInterval,             \* settings: extensionSettings.saveInterval
    files,                    \* the file plugin: the names of the .bin files on disk
    fileOp                    \* file-manager: the call that returned last, and its result

ivars == <<slotsState, currentSlot, isPreloading, currentPreloadCharacter, gen>>
pvars == <<pl, pl2, timeoutTimer, cancelCheckInterval, stopCalls, lastRace>>
avars == <<messageCounters, currentChat, autoSaves, lastAutoSave, saveInterval>>
vars == <<slotsState, currentSlot, isPreloading, currentPreloadCharacter, gen,
          pl, pl2, timeoutTimer, cancelCheckInterval, stopCalls, lastRace,
          messageCounters, currentChat, autoSaves, lastAutoSave, saveInterval,
          files, fileOp>>
fvars == <<files, fileOp>>

\* ----------------------------------------------------------- slot registry
SlotIdx == DOMAIN slotsState

\* (generationType, which the interceptor writes and nothing here reads, is
\* not kept)
FreeSlotRec == [characterName |-> NoName, usage |-> 0, cacheLoaded |-> FALSE]

\* createSlotWithCharacter: a slot freshly bound to name
BoundSlot(name) == [characterName |-> name, usage |-> 0, cacheLoaded |-> FALSE]

MinOf(S) == CHOOSE x \in S : \A y \in S : x <= y

\* findSlotOf / findCharacterSlotIndex: linear lookup by resident equality
findCharacterSlotIndex(st, name) ==
    LET owned == {i \in DOMAIN st : st[i].characterName = name}
    IN  IF name = NoName \/ owned = {} THEN NoSlot ELSE MinOf(owned)

FreeSlots(st) == {i \in DOMAIN st : st[i].characterName = NoName}

\* victim selection: lowest usage, ties broken by lowest index (one scan
\* from index 0 that replaces the candidate only on a strictly lower usage)
RECURSIVE VictimScan(_, _, _)
VictimLowestIndex(st) == IF DOMAIN st = {} THEN NoSlot ELSE MinOf(DOMAIN st)
VictimScan(st, i, best) ==
    IF i \notin DOMAIN st THEN best
    ELSE IF best = NoSlot \/ st[i].usage < st[best].usage
         THEN VictimScan(st, i + 1, i)
         ELSE VictimScan(st, i + 1, best)
Victim(st) == VictimScan(st, 0, NoSlot)

resetSlotUsage(st, i) ==
    IF i \in DOMAIN st THEN [st EXCEPT ![i].usage = 0] ELSE st

setSlotCacheLoaded(st, i, b) ==
    IF i \in DOMAIN st THEN [st EXCEPT ![i].cacheLoaded = b] ELSE st

\* ------------------------------------------------------ generation records
\* One record per generation request the host (SillyTavern) is processing:
\*   queued   the request is issued, the interceptor has not run yet
\*   acq_save acquireSlot awaits saveCharacterCache of the victim
\*   lookup   the interceptor awaits getLastCacheForCharacter
\*   load     the interceptor awaits loadSlotCache
\*   params   the interceptor has returned, the request parameters are not built yet
\*   running  the request runs on the backend
\* save holds the arguments of the saveCharacterCache call acquireSlot awaits
\* (the victim's resident and index); acq says which way the acquireSlot call
\* of the request went: "owned", "free", "fail", "evict" (no save), "saved" or
\* "save_failed" (eviction after a save that succeeded or failed).
\* loadSlot is the slot index passed to the loadSlotCache call in flight,
\* loaded what that call returned ("yes": true, "no": false), owner
\* the position in the preload batch of the entity the request was issued for
\* (0: a request of the host's own).
IdleGen == [pc |-> "idle", type |-> "none", name |-> NoName,
            save |-> <<NoName, NoSlot>>, acq |-> "none",
            loadSlot |-> NoSlot, loaded |-> "none", owner |-> 0]

\* preloadCharactersCache: its locals.  pc is the await it is suspended at:
\*   msg          createHiddenMessage
\*   status_noid  the status edit for a character without id
\*   status1      the status edit before the generation
\*   race         Promise.race of generation, timeout and cancellation poll
\*   save         saveCharacterCache of the slot read back
\*   status2      the status edit after the entity
\*   status_err   the status edit of the per-entity catch
\*   final        the final status edit
\* result is what the call returned ("throw": it rejected).
NoRace == [k |-> 0, won |-> "none"]
IdlePreload == [pc |-> "idle", batch |-> <<>>, i |-> 1, isCancelled |-> FALSE,
                preloaded |-> <<>>, errors |-> <<>>, statusMessageId |-> FALSE,
                currentGenerationTask |-> 0, save |-> <<NoName, NoSlot>>,
                result |-> "none"]

\* the record a new request takes: the first idle one (0: none is idle)
FreeGen ==
    LET idle == {g \in Gens : gen[g].pc = "idle"}
    IN  IF idle = {} THEN 0 ELSE MinOf(idle)

\* a request's record without what acquireSlot left in it (its locals are dead
\* once the interceptor has gone past the lookup)
Settled(r) == [r EXCEPT !.acq = "none", !.loaded = "none"]

\* no message counted yet (an absent counter reads as 0), no auto-save awaited
NoAutoSave == [chatId |-> "none", name |-> NoName, success |-> FALSE]
AutoSaveIdle ==
    /\ messageCounters = [c \in Chats |-> [n \in Entities |-> 0]]
    /\ currentChat = "chat1"
    /\ autoSaves = <<>>
    /\ lastAutoSave = NoAutoSave
    /\ files = {}
    /\ fileOp = [op |-> "none"]

Init ==
    /\ AutoSaveIdle
    /\ saveInterval = MaxInterval
    /\ \E n \in 0..MaxSlots : slotsState = [i \in 0..(n - 1) |-> FreeSlotRec]
    /\ currentSlot = NoSlot
    /\ isPreloading = FALSE
    /\ currentPreloadCharacter = NoName
    /\ gen = [g \in Gens |-> IdleGen]
    /\ pl = IdlePreload
    /\ pl2 = "idle"
    /\ timeoutTimer = [k \in BatchIdx |-> "none"]
    /\ cancelCheckInterval = [k \in BatchIdx |-> "none"]
    /\ stopCalls = 0
    /\ lastRace = NoRace

\* --------------------------------------------------------- cache operations
\* saveCharacterCache once saveSlotCache has settled with ok: on success the
\* files are rotated and the slot's usage is reset; on failure nothing changes.
saveCharacterCacheResetsAnyway(st, characterName, slotIndex, ok) ==
    IF characterName = NoName \/ slotIndex = NoSlot THEN st
    ELSE resetSlotUsage(st, slotIndex)
saveCharacterCache(st, characterName, slotIndex, ok) ==
    IF characterName = NoName \/ slotIndex = NoSlot THEN st
    ELSE IF ok THEN resetSlotUsage(st, slotIndex)
    ELSE st

\* the value saveCharacterCache returns
saveCharacterCacheResult(characterName, slotIndex, ok) ==
    characterName # NoName /\ slotIndex # NoSlot /\ ok

\* loadSlotCache once the backend restore has settled with ok
loadSlotCacheKeepsUsage(st, slotId, ok) ==
    IF ok THEN setSlotCacheLoaded(st, slotId, TRUE) ELSE st
loadSlotCache(st, slotId, ok) ==
    IF ok THEN setSlotCacheLoaded(resetSlotUsage(st, slotId), slotId, TRUE) ELSE st

\* ------------------------------------------------ allocation / eviction
\* acquireSlot step 4: is the victim persisted before it is rebound?
ShouldSaveStrict(st, v, minUsage) == st[v].usage > minUsage
ShouldSave(st, v, minUsage) == st[v].usage >= minUsage

\* acquireSlot step 5: rebind the slot to the requesting entity
RebindKeepCounters(st, v, name) == [st EXCEPT ![v].characterName = name]
Rebind(st, v, name) == [st EXCEPT ![v] = BoundSlot(name)]

\* acquireSlot up to its first suspension point.  Each outcome says how the call
\* went on: ret is the index returned (wait = FALSE) or the call now awaits the
\* save of the victim (wait = TRUE).
AcquireEvictsWhenFree(st, name, minUsage) ==
    LET v == Victim(st)
    IN  IF DOMAIN st = {} THEN
            {[kind |-> "fail", st |-> st, ret |-> NoSlot, victim |-> NoSlot, wait |-> FALSE]}
        ELSE IF st[v].characterName # NoName /\ ShouldSave(st, v, minUsage) THEN
            {[kind |-> "save", st |-> st, ret |-> NoSlot, victim |-> v, wait |-> TRUE]}
        ELSE
            {[kind |-> "evict", st |-> Rebind(st, v, name), ret |-> v, victim |-> v,
              wait |-> FALSE]}
AcquireIgnoresOwner(st, name, minUsage) ==
    IF FreeSlots(st) # {} THEN
        {[kind |-> "free", st |-> Rebind(st, f, name), ret |-> f, victim |-> NoSlot,
          wait |-> FALSE] : f \in FreeSlots(st)}
    ELSE AcquireEvictsWhenFree(st, name, minUsage)
AcquireOwnedTouches(st, name, minUsage) ==
    LET own == findCharacterSlotIndex(st, name)
    IN  IF own # NoSlot THEN
            {[kind |-> "owned", st |-> resetSlotUsage(st, own), ret |-> own,
              victim |-> NoSlot, wait |-> FALSE]}
        ELSE AcquireIgnoresOwner(st, name, minUsage)
AcquireSync(st, name, minUsage) ==
    LET own == findCharacterSlotIndex(st, name)
        v == Victim(st)
    IN  IF own # NoSlot THEN
            {[kind |-> "owned", st |-> st, ret |-> own, victim |-> NoSlot, wait |-> FALSE]}
        ELSE IF FreeSlots(st) # {} THEN
            {[kind |-> "free", st |-> Rebind(st, f, name), ret |-> f, victim |-> NoSlot,
              wait |-> FALSE] : f \in FreeSlots(st)}
        ELSE IF DOMAIN st = {} THEN
            {[kind |-> "fail", st |-> st, ret |-> NoSlot, victim |-> NoSlot, wait |-> FALSE]}
        ELSE IF ShouldSave(st, v, minUsage) THEN
            {[kind |-> "save", st |-> st, ret |-> NoSlot, victim |-> v, wait |-> TRUE]}
        ELSE
            {[kind |-> "evict", st |-> Rebind(st, v, name), ret |-> v, victim |-> v,
              wait |-> FALSE]}

\* acquireSlot after the save of the victim has settled: a failed save is
\* logged and the slot is rebound all the same.
AcquireAfterSaveBlocks(st, name, v, saved) ==
    IF saved THEN [st |-> Rebind(st, v, name), ret |-> v] ELSE [st |-> st, ret |-> NoSlot]
AcquireAfterSave(st, name, v, saved) == [st |-> Rebind(st, v, name), ret |-> v]

\* ------------------------------------------------------ the interceptor
\* KVCacheManagerInterceptor: the types it leaves alone
InterceptorSkips(type) ==
    type = "impersonate" \/ (type = "quiet" /\ ~isPreloading)

\* the entity the interceptor works for; ctx is the context's character
InterceptorCharacterPinFirst(type, ctx) ==
    IF isPreloading /\ currentPreloadCharacter # NoName
    THEN currentPreloadCharacter ELSE ctx
InterceptorCharacter(type, ctx) ==
    IF type = "quiet" /\ isPreloading /\ currentPreloadCharacter # NoName
    THEN currentPreloadCharacter ELSE ctx

\* The interceptor from the return of acquireSlot to its next suspension point.
\* r is the request's record as acquireSlot left it, st the registry.
AfterAcquireAlwaysRestores(g, st, ret, r) ==
    /\ currentSlot' = ret
    /\ slotsState' = st
    /\ gen' = [gen EXCEPT ![g] = [r EXCEPT !.pc = IF ret = NoSlot THEN "params"
                                                 ELSE "lookup"]]
AfterAcquire(g, st, ret, r) ==
    /\ currentSlot' = ret
    /\ IF ret = NoSlot THEN
            /\ slotsState' = st
            /\ gen' = [gen EXCEPT ![g] = [r EXCEPT !.pc = "params"]]
       ELSE IF ~st[ret].cacheLoaded THEN
            /\ slotsState' = st
            /\ gen' = [gen EXCEPT ![g] = [r EXCEPT !.pc = "lookup"]]
       ELSE
            /\ slotsState' = st
            /\ gen' = [gen EXCEPT ![g] = [r EXCEPT !.pc = "params"]]

\* The host runs the interceptor for request g: from its entry to the first
\* suspension point (the save inside acquireSlot, or the snapshot lookup).
InterceptEnter(g, ctx) ==
    /\ gen[g].pc = "queued"
    /\ LET type == gen[g].type
           name == InterceptorCharacter(type, ctx)
       IN  IF InterceptorSkips(type) \/ name = NoName THEN
               /\ gen' = [gen EXCEPT ![g].pc = "params"]
               /\ UNCHANGED <<slotsState, currentSlot>>
           ELSE
               \E o \in AcquireSync(slotsState, name, MIN_USAGE_FOR_SAVE) :
                   IF o.wait THEN
                       /\ gen' = [gen EXCEPT ![g].pc = "acq_save", ![g].name = name,
                                             ![g].save = <<slotsState[o.victim].characterName,
                                                           o.victim>>]
                       /\ UNCHANGED <<slotsState, currentSlot>>
                   ELSE
                       AfterAcquire(g, o.st, o.ret,
                                    [gen[g] EXCEPT !.name = name, !.acq = o.kind])
    /\ UNCHANGED <<isPreloading, currentPreloadCharacter>>
    /\ UNCHANGED pvars
    /\ UNCHANGED avars
    /\ UNCHANGED fvars

\* The save of the victim settles; acquireSlot rebinds and returns, the
\* interceptor goes on to its next suspension point.
AcquireSaveDone(g, ok) ==
    /\ gen[g].pc = "acq_save"
    /\ LET r == gen[g]
           saved == saveCharacterCacheResult(r.save[1], r.save[2], ok)
           st1 == saveCharacterCache(slotsState, r.save[1], r.save[2], ok)
           o == AcquireAfterSave(st1, r.name, r.save[2], saved)
       IN  AfterAcquire(g, o.st, o.ret,
                        [r EXCEPT !.save = <<NoName, NoSlot>>,
                                  !.acq = IF saved THEN "saved" ELSE "save_failed"])
    /\ UNCHANGED <<isPreloading, currentPreloadCharacter>>
    /\ UNCHANGED pvars
    /\ UNCHANGED avars
    /\ UNCHANGED fvars

\* getLastCacheForCharacter settles: with a snapshot the restore is requested
\* for the slot currentSlot names now; without one, or when the lookup threw
\* (the catch around the restore block), the interceptor finishes.
LookupDoneGivesUp(g, found) ==
    /\ gen[g].pc = "lookup"
    /\ gen' = [gen EXCEPT ![g] = IF found THEN [Settled(@) EXCEPT !.pc = "load",
                                                                 !.loadSlot = currentSlot]
                                   ELSE IdleGen]
    /\ UNCHANGED <<slotsState, currentSlot, isPreloading, currentPreloadCharacter>>
    /\ UNCHANGED pvars
    /\ UNCHANGED avars
    /\ UNCHANGED fvars
LookupDone(g, found) ==
    /\ gen[g].pc = "lookup"
    /\ IF found THEN
            /\ gen' = [gen EXCEPT ![g] = [Settled(@) EXCEPT !.pc = "load",
                                                            !.loadSlot = currentSlot]]
            /\ UNCHANGED slotsState
       ELSE
            /\ UNCHANGED slotsState
            /\ gen' = [gen EXCEPT ![g] = [Settled(@) EXCEPT !.pc = "params"]]
    /\ UNCHANGED <<currentSlot, isPreloading, currentPreloadCharacter>>
    /\ UNCHANGED pvars
    /\ UNCHANGED avars
    /\ UNCHANGED fvars

\* loadSlotCache settles; the interceptor records the type and returns.
LoadDone(g, ok) ==
    /\ gen[g].pc = "load"
    /\ gen[g].loadSlot = NoSlot => ~ok
    /\ slotsState' = loadSlotCache(slotsState, gen[g].loadSlot, ok)
    /\ gen' = [gen EXCEPT ![g].pc = "params", ![g].loadSlot = NoSlot,
                          ![g].loaded = IF ok THEN "yes" ELSE "no"]
    /\ UNCHANGED <<currentSlot, isPreloading, currentPreloadCharacter>>
    /\ UNCHANGED pvars
    /\ UNCHANGED avars
    /\ UNCHANGED fvars

\* setSlotForGeneration: the settings-ready handler threads id_slot
SetSlotForGeneration(g) ==
    /\ gen[g].pc = "params"
    /\ gen' = [gen EXCEPT ![g] = [Settled(@) EXCEPT !.pc = "running"]]
    /\ UNCHANGED <<slotsState, currentSlot, isPreloading, currentPreloadCharacter>>
    /\ UNCHANGED pvars
    /\ UNCHANGED avars
    /\ UNCHANGED fvars

\* ----------------------------------------------------------- the host
\* The host issues a generation request of its own (a user message, a swipe,
\* a quiet prompt of another extension).
HostGenerate(g, type) ==
    /\ g = FreeGen
    /\ gen' = [gen EXCEPT ![g] = [IdleGen EXCEPT !.pc = "queued", !.type = type]]
    /\ UNCHANGED <<slotsState, currentSlot, isPreloading, currentPreloadCharacter>>
    /\ UNCHANGED pvars
    /\ UNCHANGED avars
    /\ UNCHANGED fvars

\* Single flow: a request is issued only when no other is being processed.
HostGenerateSeq(g, type) ==
    /\ \A h \in Gens : gen[h].pc = "idle"
    /\ HostGenerate(g, type)

\* A host request settles (completes, fails or is aborted).
HostSettle(g) ==
    /\ gen[g].pc = "running"
    /\ gen[g].owner = 0
    /\ gen' = [gen EXCEPT ![g] = IdleGen]
    /\ UNCHANGED <<slotsState, currentSlot, isPreloading, currentPreloadCharacter>>
    /\ UNCHANGED pvars
    /\ UNCHANGED avars
    /\ UNCHANGED fvars

\* incrementUsage: a completed message of a resident entity counts one turn
IncrementUsage(name) ==
    /\ findCharacterSlotIndex(slotsState, name) # NoSlot
    /\ LET s == findCharacterSlotIndex(slotsState, name)
       IN  /\ slotsState[s].usage < MaxUsage
           /\ slotsState' = [slotsState EXCEPT ![s].usage = @ + 1]
    /\ UNCHANGED <<currentSlot, isPreloading, currentPreloadCharacter, gen>>
    /\ UNCHANGED pvars
    /\ UNCHANGED avars
    /\ UNCHANGED fvars

\* getNormalizedCharacterNameFromContext: the character the context names when
\* the interceptor runs.  For a request of the host it is any character or
\* none; for a preload request (forceChId) it is the forced character, or none
\* while the context has not followed.
ContextNames(g) ==
    IF gen[g].owner = 0 THEN Entities \cup {NoName}
    ELSE {pl.batch[gen[g].owner], NoName}

Interceptor(g) ==
    \/ \E ctx \in ContextNames(g) : InterceptEnter(g, ctx)
    \/ \E ok \in BOOLEAN : AcquireSaveDone(g, ok)
    \/ \E found \in BOOLEAN : LookupDone(g, found)
    \/ \E ok \in BOOLEAN : LoadDone(g, ok)
    \/ SetSlotForGeneration(g)

\* ------------------------------------------------- the preload orchestrator
\* stopGeneration(): context.stopGeneration(), n calls counted
StopGeneration(calls, n) == calls + n

\* after the for loop (its end or a break): the final status edit
AfterLoop(p) == [p EXCEPT !.pc = "final"]

\* the head of one loop iteration, up to its first await; hasId says whether
\* characters[i].characterId is set
LoopTopIgnoresCancel(p, hasId) ==
    IF p.i > Len(p.batch) THEN AfterLoop(p)
    ELSE IF ~hasId THEN
        [p EXCEPT !.errors = Append(@, <<p.batch[p.i], "noId">>), !.pc = "status_noid"]
    ELSE [p EXCEPT !.pc = "status1"]
LoopTop(p, hasId) ==
    IF p.i > Len(p.batch) \/ p.isCancelled THEN AfterLoop(p)
    ELSE IF ~hasId THEN
        [p EXCEPT !.errors = Append(@, <<p.batch[p.i], "noId">>), !.pc = "status_noid"]
    ELSE [p EXCEPT !.pc = "status1"]

\* continue: i++ and the next iteration's head
NextEntity(p, hasId) == LoopTop([p EXCEPT !.i = @ + 1], hasId)

\* the per-entity catch: the error is listed and the status edited
CatchEntityBreaks(p, kind) ==
    AfterLoop([p EXCEPT !.errors = Append(@, <<p.batch[p.i], kind>>)])
CatchEntity(p, kind) ==
    [p EXCEPT !.errors = Append(@, <<p.batch[p.i], kind>>), !.pc = "status_err"]

\* after the slot's save (or without one): if (isCancelled) break, else the
\* status edit after the entity
AfterSave(p) == IF p.isCancelled THEN AfterLoop(p) ELSE [p EXCEPT !.pc = "status2"]

\* const slotIndex = getCurrentSlot(); if it is not null, saveCharacterCache of
\* it under the entity's name is awaited
ReadBack(p, cs) ==
    IF cs # NoSlot
    THEN [p EXCEPT !.pc = "save", !.save = <<p.batch[p.i], cs>>]
    ELSE AfterSave(p)

\* the inner finally: the generation handle is cleared (the pin is cleared by
\* the action that uses this)
FinallyKeepsHandle(p) == p
Finally(p) == [p EXCEPT !.currentGenerationTask = 0]

\* the outer finally: the call returns or rejects
Return(p, result) == [p EXCEPT !.pc = "done", !.result = result]

\* The race of entity k has a winner.  won is "completed", "aborted" (the
\* generation rejected with an abort or timeout message), "error" (it rejected
\* with another error), "timeout" or "cancelled"; the orchestrator runs on to
\* its next await.
RaceWon(p, won, cs) ==
    CASE won = "completed" ->
            IF p.isCancelled
            THEN [p |-> AfterLoop(Finally(p)), stops |-> 1]
            ELSE [p |-> ReadBack(Finally(p), cs), stops |-> 1]
      [] won = "cancelled" -> [p |-> AfterLoop(Finally(p)), stops |-> 1]
      [] won = "error" -> [p |-> CatchEntity(Finally(p), "gen"), stops |-> 0]
      [] OTHER -> [p |-> ReadBack(Finally(p), cs), stops |-> 0]

\* is the race of entity k still undecided?
Racing(k) == pl.pc = "race" /\ pl.i = k

\* clearInterval(cancelCheckInterval)
ClearInterval(iv, k) == IF iv[k] = "active" THEN [iv EXCEPT ![k] = "cleared"] ELSE iv

\* preloadCharactersCache(characters) is called.
PreloadCall(characters, isGroup) ==
    /\ pl.pc = "idle"
    /\ IF ~isGroup \/ characters = <<>> THEN
            /\ pl' = Return(pl, "false")
            /\ UNCHANGED isPreloading
       ELSE
            /\ pl' = [pl EXCEPT !.pc = "msg", !.batch = characters]
            /\ isPreloading' = TRUE
    /\ UNCHANGED <<slotsState, currentSlot, currentPreloadCharacter, gen,
                   timeoutTimer, cancelCheckInterval, stopCalls, lastRace>>
    /\ UNCHANGED avars
    /\ UNCHANGED fvars
    /\ UNCHANGED pl2

\* createHiddenMessage settles; the loop starts.
MsgCreated(ok, hasId) ==
    /\ pl.pc = "msg"
    /\ IF ok THEN
            /\ pl' = LoopTop([pl EXCEPT !.statusMessageId = TRUE], hasId)
            /\ UNCHANGED <<isPreloading, currentPreloadCharacter>>
       ELSE
            /\ pl' = Return(pl, "throw")
            /\ isPreloading' = FALSE
            /\ currentPreloadCharacter' = NoName
    /\ UNCHANGED <<slotsState, currentSlot, gen,
                   timeoutTimer, cancelCheckInterval, stopCalls, lastRace>>
    /\ UNCHANGED avars
    /\ UNCHANGED fvars
    /\ UNCHANGED pl2

\* The status edit for a character without id settles (outside the per-entity
\* try: a throw leaves the loop).
StatusNoIdDone(ok, hasId) ==
    /\ pl.pc = "status_noid"
    /\ IF ok THEN
            /\ pl' = NextEntity(pl, hasId)
            /\ stopCalls' = 0
            /\ UNCHANGED <<isPreloading, currentPreloadCharacter>>
       ELSE
            /\ pl' = Return(pl, "throw")
            /\ isPreloading' = FALSE
            /\ currentPreloadCharacter' = NoName
            /\ UNCHANGED stopCalls
    /\ UNCHANGED <<slotsState, currentSlot, gen,
                   timeoutTimer, cancelCheckInterval, lastRace>>
    /\ UNCHANGED avars
    /\ UNCHANGED fvars
    /\ UNCHANGED pl2

\* The status edit before the generation settles: the entity is pinned, the
\* quiet generation issued as request g, the timer and the poller started.
\* A rejected edit is caught by the per-entity catch.
Status1Done(g, ok) ==
    /\ pl.pc = "status1"
    /\ IF ~ok THEN
            /\ pl' = CatchEntity(pl, "edit")
            /\ UNCHANGED <<currentPreloadCharacter, gen, timeoutTimer, cancelCheckInterval>>
       ELSE IF pl.isCancelled THEN
            /\ pl' = AfterLoop(Finally(pl))
            /\ currentPreloadCharacter' = NoName
            /\ UNCHANGED <<gen, timeoutTimer, cancelCheckInterval>>
       ELSE
            /\ g = FreeGen
            /\ currentPreloadCharacter' = pl.batch[pl.i]
            /\ gen' = [gen EXCEPT ![g] = [IdleGen EXCEPT !.pc = "queued", !.type = "quiet",
                                                         !.owner = pl.i]]
            /\ timeoutTimer' = [timeoutTimer EXCEPT ![pl.i] = "pending"]
            /\ cancelCheckInterval' = [cancelCheckInterval EXCEPT ![pl.i] = "active"]
            /\ pl' = [pl EXCEPT !.pc = "race", !.currentGenerationTask = g]
    /\ UNCHANGED <<slotsState, currentSlot, isPreloading, stopCalls, lastRace>>
    /\ UNCHANGED avars
    /\ UNCHANGED fvars
    /\ UNCHANGED pl2

\* The quiet generation g of entity k settles: its then/catch handlers clear
\* the poller; if the race is still undecided it is won by the generation.
PreloadGenSettle(g, outcome) ==
    /\ gen[g].pc = "running"
    /\ gen[g].owner # 0
    /\ LET k == gen[g].owner
           won == CASE outcome = "resolved" -> "completed"
                    [] outcome = "aborted" -> "aborted"
                    [] OTHER -> "error"
           w == RaceWon(pl, won, currentSlot)
       IN  /\ gen' = [gen EXCEPT ![g] = IdleGen]
           /\ cancelCheckInterval' = ClearInterval(cancelCheckInterval, k)
           /\ IF Racing(k) THEN
                   /\ pl' = w.p
                   /\ stopCalls' = StopGeneration(stopCalls, w.stops)
                   /\ lastRace' = [k |-> k, won |-> won]
                   /\ currentPreloadCharacter' = NoName
              ELSE UNCHANGED <<pl, stopCalls, lastRace, currentPreloadCharacter>>
    /\ UNCHANGED <<slotsState, currentSlot, isPreloading, timeoutTimer>>
    /\ UNCHANGED avars
    /\ UNCHANGED fvars
    /\ UNCHANGED pl2

\* The timeout timer of entity k fires while its race is undecided: its catch
\* handler clears the poller and the timeout wins.  (The timer is never
\* cleared.  When it fires after the race was decided its handler clears an
\* interval that is cleared already and rejects a promise nobody waits for:
\* no state changes, and the timer is left "pending" here.)
TimerFire(k) ==
    /\ timeoutTimer[k] = "pending"
    /\ Racing(k)
    /\ timeoutTimer' = [timeoutTimer EXCEPT ![k] = "fired"]
    /\ cancelCheckInterval' = ClearInterval(cancelCheckInterval, k)
    /\ LET w == RaceWon(pl, "timeout", currentSlot)
       IN  /\ pl' = w.p
           /\ stopCalls' = StopGeneration(stopCalls, w.stops)
           /\ lastRace' = [k |-> k, won |-> "timeout"]
           /\ currentPreloadCharacter' = NoName
    /\ UNCHANGED <<slotsState, currentSlot, isPreloading, gen>>
    /\ UNCHANGED avars
    /\ UNCHANGED fvars
    /\ UNCHANGED pl2

\* A tick of the cancellation poller of entity k that sees the flag: it clears
\* itself, stops the generation and resolves 'cancelled'.
PollerTick(k) ==
    /\ cancelCheckInterval[k] = "active"
    /\ pl.isCancelled
    /\ cancelCheckInterval' = [cancelCheckInterval EXCEPT ![k] = "cleared"]
    /\ IF Racing(k) THEN
           LET w == RaceWon(pl, "cancelled", currentSlot)
           IN  /\ pl' = w.p
               /\ stopCalls' = StopGeneration(stopCalls, 1 + w.stops)
               /\ lastRace' = [k |-> k, won |-> "cancelled"]
               /\ currentPreloadCharacter' = NoName
       ELSE
           /\ stopCalls' = StopGeneration(stopCalls, 1)
           /\ UNCHANGED <<pl, lastRace, currentPreloadCharacter>>
    /\ UNCHANGED <<slotsState, currentSlot, isPreloading, gen, timeoutTimer>>
    /\ UNCHANGED avars
    /\ UNCHANGED fvars
    /\ UNCHANGED pl2

\* handleCancel: the user clicks the cancel button of the status message.
HandleCancelNoStop ==
    /\ pl.pc \in {"status_noid", "status1", "race", "save", "status2", "status_err"}
    /\ ~pl.isCancelled
    /\ pl' = [pl EXCEPT !.isCancelled = TRUE]
    /\ UNCHANGED <<slotsState, currentSlot, isPreloading, currentPreloadCharacter, gen,
                   timeoutTimer, cancelCheckInterval, stopCalls, lastRace>>
    /\ UNCHANGED avars
    /\ UNCHANGED fvars
    /\ UNCHANGED pl2
HandleCancel ==
    /\ pl.pc \in {"status_noid", "status1", "race", "save", "status2", "status_err"}
    /\ ~pl.isCancelled
    /\ pl' = [pl EXCEPT !.isCancelled = TRUE]
    /\ stopCalls' = StopGeneration(stopCalls, 1)
    /\ UNCHANGED <<slotsState, currentSlot, isPreloading, currentPreloadCharacter, gen,
                   timeoutTimer, cancelCheckInterval, lastRace>>
    /\ UNCHANGED avars
    /\ UNCHANGED fvars
    /\ UNCHANGED pl2

\* saveCharacterCache of the slot read back settles.
PreloadSaveDone(ok) ==
    /\ pl.pc = "save"
    /\ LET name == pl.save[1]
           slot == pl.save[2]
           saved == saveCharacterCacheResult(name, slot, ok)
           p1 == [pl EXCEPT !.save = <<NoName, NoSlot>>]
           p2 == IF saved THEN [p1 EXCEPT !.preloaded = Append(@, name)]
                 ELSE [p1 EXCEPT !.errors = Append(@, <<name, "save">>)]
       IN  /\ slotsState' = saveCharacterCache(slotsState, name, slot, ok)
           /\ pl' = AfterSave(p2)
    /\ UNCHANGED <<currentSlot, isPreloading, currentPreloadCharacter, gen,
                   timeoutTimer, cancelCheckInterval, stopCalls, lastRace>>
    /\ UNCHANGED avars
    /\ UNCHANGED fvars
    /\ UNCHANGED pl2

\* The status edit after the entity settles; a rejected edit is caught by the
\* per-entity catch.
Status2Done(ok, hasId) ==
    /\ pl.pc = "status2"
    /\ IF ok THEN pl' = NextEntity(pl, hasId) /\ stopCalls' = 0
       ELSE pl' = CatchEntity(pl, "edit") /\ UNCHANGED stopCalls
    /\ UNCHANGED <<slotsState, currentSlot, isPreloading, currentPreloadCharacter, gen,
                   timeoutTimer, cancelCheckInterval, lastRace>>
    /\ UNCHANGED avars
    /\ UNCHANGED fvars
    /\ UNCHANGED pl2

\* The status edit of the per-entity catch settles (a throw leaves the loop).
StatusErrDone(ok, hasId) ==
    /\ pl.pc = "status_err"
    /\ IF ok THEN
            /\ pl' = NextEntity(pl, hasId)
            /\ stopCalls' = 0
            /\ UNCHANGED <<isPreloading, currentPreloadCharacter>>
       ELSE
            /\ pl' = Return(pl, "throw")
            /\ isPreloading' = FALSE
            /\ currentPreloadCharacter' = NoName
            /\ UNCHANGED stopCalls
    /\ UNCHANGED <<slotsState, currentSlot, gen,
                   timeoutTimer, cancelCheckInterval, lastRace>>
    /\ UNCHANGED avars
    /\ UNCHANGED fvars
    /\ UNCHANGED pl2

\* the value the call returns after the loop
BatchResultNeedsNoErrors(p) ==
    IF Len(p.preloaded) > 0 /\ p.errors = <<>> THEN "true" ELSE "false"
BatchResult(p) == IF Len(p.preloaded) > 0 THEN "true" ELSE "false"

\* The final status edit settles: the call returns and the outer finally
\* switches preloading mode off.
FinalDone(ok) ==
    /\ pl.pc = "final"
    /\ pl' = Return(pl, IF ~ok THEN "throw" ELSE BatchResult(pl))
    /\ isPreloading' = FALSE
    /\ currentPreloadCharacter' = NoName
    /\ UNCHANGED <<slotsState, currentSlot, gen,
                   timeoutTimer, cancelCheckInterval, stopCalls, lastRace>>
    /\ UNCHANGED avars
    /\ UNCHANGED fvars
    /\ UNCHANGED pl2

Preload ==
    \/ \E characters \in Batches, isGroup \in BOOLEAN : PreloadCall(characters, isGroup)
    \/ \E ok \in BOOLEAN, hasId \in BOOLEAN : MsgCreated(ok, hasId)
    \/ \E ok \in BOOLEAN, hasId \in BOOLEAN : StatusNoIdDone(ok, hasId)
    \/ \E g \in Gens, ok \in BOOLEAN : Status1Done(g, ok)
    \/ \E g \in Gens, outcome \in {"resolved", "aborted", "failed"} :
           PreloadGenSettle(g, outcome)
    \/ \E k \in BatchIdx : TimerFire(k)
    \/ \E k \in BatchIdx : PollerTick(k)
    \/ HandleCancel
    \/ \E ok \in BOOLEAN : PreloadSaveDone(ok)
    \/ \E ok \in BOOLEAN, hasId \in BOOLEAN : Status2Done(ok, hasId)
    \/ \E ok \in BOOLEAN, hasId \in BOOLEAN : StatusErrDone(ok, hasId)
    \/ \E ok \in BOOLEAN : FinalDone(ok)

\* Overlapping requests: the host may issue one while another is in flight.
Next ==
    \/ \E g \in Gens, type \in GenTypes : HostGenerate(g, type)
    \/ \E g \in Gens : Interceptor(g)
    \/ \E g \in Gens : HostSettle(g)
    \/ \E name \in Entities : IncrementUsage(name)

Spec == Init /\ [][Next]_vars

\* Single flow (the scheduling the design assumes): one request at a time.
NextSeq ==
    \/ \E g \in Gens, type \in GenTypes : HostGenerateSeq(g, type)
    \/ \E g \in Gens : Interceptor(g)
    \/ \E g \in Gens : HostSettle(g)
    \/ \E name \in Entities : IncrementUsage(name)

SpecSeq == Init /\ [][NextSeq]_vars

\* The requests of the host, one at a time, at any moment of a session: outside
\* a preload batch (setPreloadingMode(false) has cleared the pin), or during one,
\* between two entities (no pin) or while an entity is pinned.
InitIntercept ==
    /\ AutoSaveIdle
    /\ saveInterval = MaxInterval
    /\ \E n \in 1..MaxSlots : slotsState = [i \in 0..(n - 1) |-> FreeSlotRec]
    /\ currentSlot = NoSlot
    /\ isPreloading \in BOOLEAN
    /\ currentPreloadCharacter \in (IF isPreloading THEN Entities \cup {NoName} ELSE {NoName})
    /\ gen = [g \in Gens |-> IdleGen]
    /\ pl = IdlePreload
    /\ pl2 = "idle"
    /\ timeoutTimer = [k \in BatchIdx |-> "none"]
    /\ cancelCheckInterval = [k \in BatchIdx |-> "none"]
    /\ stopCalls = 0
    /\ lastRace = NoRace

SpecIntercept == InitIntercept /\ [][NextSeq]_vars

\* A preload batch: the orchestrator, its quiet generations and the messages
\* of the conversation.
NextPreload ==
    \/ Preload
    \/ \E g \in Gens : Interceptor(g)

\* The batch starts in a fresh session (every slot free) or in a conversation
\* that has been running: every slot bound, each resident with enough turns to
\* be worth saving, currentSlot left by the last generation.
WarmNames == <<"C", "B", "A">>
WarmSlot(name) == [characterName |-> name, usage |-> MIN_USAGE_FOR_SAVE,
                   cacheLoaded |-> TRUE]
WarmRegistry == [i \in 0..(MaxSlots - 1) |-> WarmSlot(WarmNames[i + 1])]

InitPreload ==
    /\ AutoSaveIdle
    /\ saveInterval = MaxInterval
    /\ \/ /\ \E n \in 0..MaxSlots : slotsState = [i \in 0..(n - 1) |-> FreeSlotRec]
          /\ currentSlot = NoSlot
       \/ /\ MaxSlots \in 1..Len(WarmNames)
          /\ slotsState = WarmRegistry
          /\ currentSlot \in DOMAIN WarmRegistry
    /\ isPreloading = FALSE
    /\ currentPreloadCharacter = NoName
    /\ gen = [g \in Gens |-> IdleGen]
    /\ pl = IdlePreload
    /\ pl2 = "idle"
    /\ timeoutTimer = [k \in BatchIdx |-> "none"]
    /\ cancelCheckInterval = [k \in BatchIdx |-> "none"]
    /\ stopCalls = 0
    /\ lastRace = NoRace

SpecPreload == InitPreload /\ [][NextPreload]_vars

\* preloadCharactersCache is called a second time while the first call may be
\* running (nothing in the function refuses it).  Of the second call only the
\* entry, up to setPreloadingMode(true), and the outer finally are followed; its
\* loop is the code pl runs.
SecondPreloadCall(characters, isGroup) ==
    /\ pl2 = "idle"
    /\ IF ~isGroup \/ characters = <<>> THEN
            /\ pl2' = "done"
            /\ UNCHANGED isPreloading
       ELSE
            /\ pl2' = "running"
            /\ isPreloading' = TRUE
    /\ UNCHANGED <<slotsState, currentSlot, currentPreloadCharacter, gen, pl,
                   timeoutTimer, cancelCheckInterval, stopCalls, lastRace>>
    /\ UNCHANGED avars
    /\ UNCHANGED fvars

SecondPreloadReturn ==
    /\ pl2 = "running"
    /\ pl2' = "done"
    /\ isPreloading' = FALSE
    /\ currentPreloadCharacter' = NoName
    /\ UNCHANGED <<slotsState, currentSlot, gen, pl,
                   timeoutTimer, cancelCheckInterval, stopCalls, lastRace>>
    /\ UNCHANGED avars
    /\ UNCHANGED fvars

NextTwoBatches ==
    \/ NextPreload
    \/ \E characters \in Batches, isGroup \in BOOLEAN : SecondPreloadCall(characters, isGroup)
    \/ SecondPreloadReturn

SpecTwoBatches == InitPreload /\ [][NextTwoBatches]_vars

\* ---------------------------------------------------------------- auto-save
\* what incrementMessageCounter does with the counters once its save has
\* settled: reset the counter of the chat and character it counted for, on
\* success only
AfterAutoSaveAlwaysResets(counters, chatId, name, success) ==
    [counters EXCEPT ![chatId][name] = 0]
AfterAutoSave(counters, chatId, name, success) ==
    IF success THEN [counters EXCEPT ![chatId][name] = 0] ELSE counters

\* the i-th element removed
RemoveAt(seq, i) == SubSeq(seq, 1, i - 1) \o SubSeq(seq, i + 1, Len(seq))

\* does the counter just incremented start a save?  The interval must have
\* been reached and the character must hold a slot.
AutoSaveDueAboveInterval(count, interval, slotIndex) ==
    count > interval /\ slotIndex # NoSlot
AutoSaveDue(count, interval, slotIndex) ==
    count >= interval /\ slotIndex # NoSlot

\* onMessageReceived -> incrementMessageCounter(characterName), up to its
\* await or to its end.  It returns at once when auto-save is disabled or the
\* event names no character.  A suspended call is recorded with the chat, the
\* name and the slot it holds, and with what the counter was when it suspended.
OnMessageReceived(characterName, enabled) ==
    /\ enabled
    /\ characterName # NoName
    /\ messageCounters[currentChat][characterName] < MaxCount
    /\ LET counters == [messageCounters EXCEPT ![currentChat][characterName] = @ + 1]
           slotIndex == findCharacterSlotIndex(slotsState, characterName)
           saves == AutoSaveDue(counters[currentChat][characterName], saveInterval, slotIndex)
       IN  /\ saves => Len(autoSaves) < MaxSaving
           /\ messageCounters' = counters
           /\ autoSaves' = IF saves
                           THEN Append(autoSaves, [chatId |-> currentChat,
                                                   name |-> characterName,
                                                   slot |-> slotIndex,
                                                   count |-> counters[currentChat][characterName]])
                           ELSE autoSaves
    /\ UNCHANGED <<currentChat, lastAutoSave, saveInterval>>
    /\ UNCHANGED ivars
    /\ UNCHANGED pvars
    /\ UNCHANGED fvars

\* The saveCharacterCache awaited by the j-th suspended call settles; ok is
\* what saveSlotCache reported.
AutoSaveDone(j, ok) ==
    /\ j \in 1..Len(autoSaves)
    /\ LET call == autoSaves[j]
           success == saveCharacterCacheResult(call.name, call.slot, ok)
       IN  /\ slotsState' = saveCharacterCache(slotsState, call.name, call.slot, ok)
           /\ messageCounters' = AfterAutoSave(messageCounters, call.chatId, call.name, success)
           /\ lastAutoSave' = [chatId |-> call.chatId, name |-> call.name,
                               success |-> success]
    /\ autoSaves' = RemoveAt(autoSaves, j)
    /\ UNCHANGED <<currentSlot, isPreloading, currentPreloadCharacter, gen, currentChat,
                   saveInterval>>
    /\ UNCHANGED pvars
    /\ UNCHANGED fvars

\* The user opens another chat: getNormalizedChatId() names it from now on.
ChatChanged(chatId) ==
    /\ chatId # currentChat
    /\ currentChat' = chatId
    /\ UNCHANGED <<messageCounters, autoSaves, lastAutoSave, saveInterval>>
    /\ UNCHANGED ivars
    /\ UNCHANGED pvars
    /\ UNCHANGED fvars

NextAutoSave ==
    \/ \E characterName \in Speakers \cup {NoName}, enabled \in BOOLEAN :
           OnMessageReceived(characterName, enabled)
    \/ \E j \in 1..MaxSaving, ok \in BOOLEAN : AutoSaveDone(j, ok)
    \/ \E name \in Entities : IncrementUsage(name)
    \/ \E chatId \in Chats : ChatChanged(chatId)

\* The messages of a conversation that has been running (see InitPreload), no
\* generation and no preload under way.
InitAutoSave ==
    /\ AutoSaveIdle
    /\ saveInterval \in 1..MaxInterval
    /\ MaxSlots \in 1..Len(WarmNames)
    /\ slotsState = WarmRegistry
    /\ currentSlot \in DOMAIN WarmRegistry
    /\ isPreloading = FALSE
    /\ currentPreloadCharacter = NoName
    /\ gen = [g \in Gens |-> IdleGen]
    /\ pl = IdlePreload
    /\ pl2 = "idle"
    /\ timeoutTimer = [k \in BatchIdx |-> "none"]
    /\ cancelCheckInterval = [k \in BatchIdx |-> "none"]
    /\ stopCalls = 0
    /\ lastRace = NoRace

SpecAutoSave == InitAutoSave /\ [][NextAutoSave]_vars

\* ------------------------------------------------------------ snapshot files
\* A file name is a sequence of tokens: "_" and "." are the characters the
\* patterns of parseSaveFilename look for, every other token is a run of
\* letters or digits without them, " " is a character normalizeString replaces.
\* A timestamp is one token of fourteen digits.
Stamps == <<"20240101000001", "20240101000002", "20240101000003",
            "20240101000004", "20240101000005">>
Times == 1..MaxTime
NoTag == <<>>
NoFile == <<>>
FileCharacters == {<<"Al">>, <<"Al", "_", "Ice">>}
FileTags == {NoTag, <<"v1">>}
InvalidTokens == {" ", "."}

\* utils.js normalizeString: every character outside [a-zA-Z0-9_-] becomes "_".
normalizeString(str) ==
    [i \in DOMAIN str |-> IF str[i] \in InvalidTokens THEN "_" ELSE str[i]]
normalizeChatId(chatId) == IF chatId = <<>> THEN <<"unknown">> ELSE normalizeString(chatId)
normalizeCharacterName(characterName) == normalizeString(characterName)
\* script.js getCurrentChatId: the host names a chat file after its character
\* and the time it was started, here a character called "my character".
getCurrentChatId ==
    IF currentChat = "chat1" THEN <<"chat1">> ELSE <<"my", " ", "character", " ", "chat2">>
getNormalizedChatId == normalizeChatId(getCurrentChatId)

generateSaveFilename(chatId, timestamp, characterName, tag) ==
    IF tag # NoTag
    THEN normalizeChatId(chatId) \o <<"_", timestamp, "_", "tag", "_">> \o normalizeString(tag)
             \o <<"_", "character", "_">> \o characterName \o <<".", "bin">>
    ELSE normalizeChatId(chatId) \o <<"_", timestamp, "_", "character", "_">>
             \o characterName \o <<".", "bin">>

\* String.prototype.includes.
Includes(str, part) ==
    \E i \in 1..(Len(str) - Len(part) + 1) : SubSeq(str, i, i + Len(part) - 1) = part

\* The positions where /_word_(.+)$/ can match: "_word_" followed by at least
\* one character.  String.prototype.match takes the leftmost of them.
MatchesAt(str, word) ==
    {i \in 1..(Len(str) - 3) : SubSeq(str, i, i + 2) = <<"_", word, "_">>}
Leftmost(positions) == CHOOSE i \in positions : \A j \in positions : i <= j

NoParse == [chatId |-> <<>>, timestamp |-> "", tag |-> NoTag, characterName |-> <<>>, ok |-> FALSE]

parseSaveFilename(filename) ==
    LET n == Len(filename)
        nameWithoutExt == IF n >= 2 /\ SubSeq(filename, n - 1, n) = <<".", "bin">>
                          THEN SubSeq(filename, 1, n - 2) ELSE filename
        cm == MatchesAt(nameWithoutExt, "character")
    IN  IF cm = {} THEN NoParse
        ELSE LET c == Leftmost(cm)
                 characterName == SubSeq(nameWithoutExt, c + 3, Len(nameWithoutExt))
                 before1 == SubSeq(nameWithoutExt, 1, c - 1)
                 tm == MatchesAt(before1, "tag")
                 tag == IF tm = {} THEN NoTag
                        ELSE SubSeq(before1, Leftmost(tm) + 3, Len(before1))
                 before2 == IF tm = {} THEN before1 ELSE SubSeq(before1, 1, Leftmost(tm) - 1)
                 m == Len(before2)
             IN  IF m >= 2 /\ before2[m - 1] = "_" /\ (\E t \in DOMAIN Stamps : Stamps[t] = before2[m])
                 THEN [chatId |-> SubSeq(before2, 1, m - 2), timestamp |-> before2[m],
                       tag |-> tag, characterName |-> characterName, ok |-> TRUE]
                 ELSE NoParse

\* localeCompare on two timestamps of fourteen digits orders them as numbers.
TimeOf(timestamp) == CHOOSE t \in DOMAIN Stamps : Stamps[t] = timestamp
Newer(f, g) == TimeOf(parseSaveFilename(f).timestamp) > TimeOf(parseSaveFilename(g).timestamp)

\* utils.js sortByTimestamp, descending, on a list whose order the file plugin
\* chose: the orders the stable sort can give, as the sets of names that can
\* come first.  Heads(S, k) are the possible items.slice(0, k).
Heads(S, k) ==
    {H \in SUBSET S : /\ Cardinality(H) = (IF Cardinality(S) < k THEN Cardinality(S) ELSE k)
                      /\ \A f \in H, g \in S \ H : ~Newer(g, f)}

\* The files getLastCacheForCharacter pushes to characterFiles.
CharacterFiles(list, characterName, chatId) ==
    {f \in list :
        LET parsed == parseSaveFilename(f)
        IN  /\ parsed.ok
            /\ parsed.chatId = chatId
            /\ \/ normalizeCharacterName(parsed.characterName)
                      = normalizeCharacterName(characterName)
               \/ Includes(f, normalizeCharacterName(characterName))
               \/ Includes(f, characterName)}

\* The files the filter of rotateCharacterFiles lets through.
AutoSavesOfAnyTag(list, characterName, chatId) ==
    {f \in list :
        LET parsed == parseSaveFilename(f)
        IN  /\ parsed.ok
            /\ parsed.chatId = chatId
            /\ normalizeCharacterName(parsed.characterName)
                   = normalizeCharacterName(characterName)}
AutoSavesOf(list, characterName, chatId) ==
    {f \in list :
        LET parsed == parseSaveFilename(f)
        IN  /\ parsed.ok
            /\ parsed.chatId = chatId
            /\ normalizeCharacterName(parsed.characterName)
                   = normalizeCharacterName(characterName)
            /\ parsed.tag = NoTag}

\* extensionSettings.maxFiles || 10
MaxFilesOr10(maxFiles) == IF maxFiles = 0 THEN 10 ELSE maxFiles

\* llamaApi.saveSlotCache wrote the file saveCharacterCache (no tag) or the
\* manual save (tag) named.
SnapshotSaved(t, characterName, tag) ==
    LET filename == generateSaveFilename(getNormalizedChatId, Stamps[t], characterName, tag)
    IN  /\ Cardinality(files \cup {filename}) <= MaxFiles
        /\ files' = files \cup {filename}
        /\ fileOp' = [op |-> "save"]
        /\ UNCHANGED ivars
        /\ UNCHANGED pvars
        /\ UNCHANGED avars

\* getLastCacheForCharacter(characterName, true).  listed is what getFilesList
\* returned: the directory, or [] when the plugin failed.
GetLastCache(characterName, listed) ==
    LET list == IF listed THEN files ELSE {}
        characterFiles == CharacterFiles(list, characterName, getNormalizedChatId)
    IN  /\ \E filename \in (IF characterFiles = {} THEN {NoFile}
                            ELSE UNION Heads(characterFiles, 1)) :
               fileOp' = [op |-> "lookup", chatId |-> getNormalizedChatId,
                          characterName |-> characterName, filename |-> filename]
        /\ UNCHANGED files
        /\ UNCHANGED ivars
        /\ UNCHANGED pvars
        /\ UNCHANGED avars

\* rotateCharacterFiles(characterName) with extensionSettings.maxFiles =
\* maxFiles.  failed are the files deleteFile returned false for; complete
\* says that the directory was listed and no deletion failed, deletedCount is
\* the count rotateFiles keeps.
RotateOutcomes(F, characterName, chatId, maxFiles, listed) ==
    LET list == IF listed THEN F ELSE {}
        filteredFiles == AutoSavesOf(list, characterName, chatId)
    IN  UNION {{[files |-> F \ ((filteredFiles \ kept) \ failed),
                 complete |-> listed /\ failed = {},
                 deletedCount |-> Cardinality((filteredFiles \ kept) \ failed)] :
                  failed \in SUBSET (filteredFiles \ kept)} :
               kept \in Heads(filteredFiles, MaxFilesOr10(maxFiles))}
RotateCharacterFiles(characterName, maxFiles, listed) ==
    /\ characterName # <<>>
    /\ \E o \in RotateOutcomes(files, characterName, getNormalizedChatId, maxFiles, listed) :
           /\ files' = o.files
           /\ fileOp' = [op |-> "rotate",
                         characterName |-> normalizeCharacterName(characterName),
                         maxFiles |-> maxFiles, complete |-> o.complete,
                         deletedCount |-> o.deletedCount]
    /\ UNCHANGED ivars
    /\ UNCHANGED pvars
    /\ UNCHANGED avars

NextFiles ==
    \/ \E t \in Times, characterName \in FileCharacters, tag \in FileTags :
           SnapshotSaved(t, characterName, tag)
    \/ \E characterName \in FileCharacters, listed \in BOOLEAN :
           GetLastCache(characterName, listed)
    \/ \E characterName \in FileCharacters, maxFiles \in 1..MaxKeep, listed \in BOOLEAN :
           RotateCharacterFiles(characterName, maxFiles, listed)
    \/ \E chatId \in Chats : ChatChanged(chatId)

\* An empty directory; nothing else of the extension runs.
InitFiles == Init /\ DOMAIN slotsState = 0..(MaxSlots - 1)

SpecFiles == InitFiles /\ [][NextFiles]_vars

\* ------------------------------------------------- an auto-save and its file
\* The normalized names of the characters, character by character.
Spelling ==
    [n \in Entities |-> CASE n = "A" -> <<"Al">>
                          [] n = "B" -> <<"Al", "_", "Ice">>
                          [] OTHER -> <<"Bo">>]

\* validateCacheFile: found says that the listing holds the file, tooSmall that
\* its size is below MIN_FILE_SIZE_MB.  A listing that failed is empty.
validateCacheFileTrusting(found, tooSmall) == TRUE
validateCacheFile(found, tooSmall) == ~(found /\ tooSmall)

\* saveSlotCache: backendOk says that llamaApi.saveSlotCache resolved.
saveSlotCache(backendOk, found, tooSmall) ==
    backendOk /\ validateCacheFile(found, tooSmall)

\* saveCharacterCache(name of the slot's resident, slotIndex) up to the return
\* of saveSlotCache: the backend writes the file, validateCacheFile lists the
\* directory and deletes a file that is too small; deleted is what deleteFile
\* returned.
SaveSlotCacheSettles(slotIndex, t, backendOk, found, tooSmall, deleted) ==
    /\ fileOp.op # "validated"
    /\ slotIndex \in DOMAIN slotsState
    /\ slotsState[slotIndex].characterName # NoName
    /\ ~backendOk => (found /\ ~tooSmall)
    /\ ~(backendOk /\ found /\ tooSmall) => deleted
    /\ LET name == slotsState[slotIndex].characterName
           filename == generateSaveFilename(getNormalizedChatId, Stamps[t],
                                            Spelling[name], NoTag)
           invalid == backendOk /\ ~validateCacheFile(found, tooSmall)
       IN  /\ Cardinality(files \cup {filename}) <= MaxFiles
           /\ files' = IF ~backendOk THEN files
                       ELSE IF found /\ tooSmall /\ deleted THEN files \ {filename}
                       ELSE files \cup {filename}
           /\ fileOp' = [op |-> "validated", filename |-> filename, slot |-> slotIndex,
                         backendOk |-> backendOk, tooSmall |-> backendOk /\ found /\ tooSmall,
                         deleted |-> backendOk /\ found /\ tooSmall /\ deleted,
                         success |-> saveSlotCache(backendOk, found, tooSmall)]
    /\ UNCHANGED ivars
    /\ UNCHANGED pvars
    /\ UNCHANGED avars

\* saveCharacterCache from the return of saveSlotCache to its own return: on
\* success the character's files are rotated and the usage of the slot is
\* reset.
SaveCharacterCacheReturns(maxFiles, listed) ==
    /\ fileOp.op = "validated"
    /\ LET name == slotsState[fileOp.slot].characterName
       IN  /\ IF fileOp.success
              THEN \E o \in RotateOutcomes(files, Spelling[name], getNormalizedChatId,
                                           maxFiles, listed) : files' = o.files
              ELSE files' = files
           /\ slotsState' = saveCharacterCache(slotsState, name, fileOp.slot, fileOp.success)
           /\ fileOp' = [op |-> "saved", slot |-> fileOp.slot, tooSmall |-> fileOp.tooSmall,
                         success |-> saveCharacterCacheResult(name, fileOp.slot, fileOp.success)]
    /\ UNCHANGED <<currentSlot, isPreloading, currentPreloadCharacter, gen>>
    /\ UNCHANGED pvars
    /\ UNCHANGED avars

NextSave ==
    \/ \E slotIndex \in 0..(MaxSlots - 1), t \in Times,
          backendOk \in BOOLEAN, found \in BOOLEAN, tooSmall \in BOOLEAN, deleted \in BOOLEAN :
           SaveSlotCacheSettles(slotIndex, t, backendOk, found, tooSmall, deleted)
    \/ \E maxFiles \in 1..MaxKeep, listed \in BOOLEAN :
           SaveCharacterCacheReturns(maxFiles, listed)
    \/ \E name \in Entities : IncrementUsage(name)

\* A conversation that has been running (see InitPreload) and an empty directory.
InitSave == InitAutoSave /\ saveInterval = MaxInterval /\ currentSlot = 0

SpecSave == InitSave /\ [][NextSave]_vars

\* ------------------------------------------------------ naming and parsing
\* Normalized chat ids, character names and tags, among them some that contain
\* "_tag_" or "_character_".
NormalizedChatIds ==
    {<<"chat1">>, <<"my", "_", "character", "_", "chat2">>, <<"my", "_", "tag", "_", "chat3">>}
NormalizedNames ==
    {<<"Al">>, <<"Al", "_", "Ice">>, <<"a", "_", "character", "_", "b">>,
     <<"a", "_", "tag", "_", "b">>}
NormalizedTags ==
    {NoTag, <<"v1">>, <<"a", "_", "tag", "_", "b">>, <<"a", "_", "character", "_", "b">>}

\* parseSaveFilename is applied to the name generateSaveFilename gives a
\* snapshot.
ParseGenerated(chatId, t, characterName, tag) ==
    /\ fileOp' = [op |-> "parse", chatId |-> chatId, timestamp |-> Stamps[t],
                  characterName |-> characterName, tag |-> tag,
                  parsed |-> parseSaveFilename(
                                 generateSaveFilename(chatId, Stamps[t], characterName, tag))]
    /\ UNCHANGED files
    /\ UNCHANGED ivars
    /\ UNCHANGED pvars
    /\ UNCHANGED avars

NextNames ==
    \E chatId \in NormalizedChatIds, t \in Times, characterName \in NormalizedNames,
       tag \in NormalizedTags : ParseGenerated(chatId, t, characterName, tag)

SpecNames == InitFiles /\ [][NextNames]_vars

\* ================================================================ properties
\* Steps of acquireSlot, seen on the record of the request g it serves.  The
\* entity it is called for is gen'[g].name, the index it returns currentSlot'.
AcquireCalled(g) ==
    gen[g].pc = "queued" /\ gen'[g].pc # "queued" /\ gen'[g].name # NoName
SaveIssued(g) == gen[g].pc = "queued" /\ gen'[g].pc = "acq_save"
AcquireReturned(g) ==
    /\ gen[g].pc \in {"queued", "acq_save"}
    /\ gen'[g].pc \notin {"queued", "acq_save"}
    /\ gen'[g].name # NoName
Owns(st, name) == findCharacterSlotIndex(st, name) # NoSlot
FullPool(st) == DOMAIN st # {} /\ FreeSlots(st) = {}

\* the reference selection: strictly minimal usage, on a tie the lowest index
RefVictim(st) ==
    CHOOSE v \in DOMAIN st :
        \A j \in DOMAIN st \ {v} :
            st[v].usage < st[j].usage \/ (st[v].usage = st[j].usage /\ v < j)

\* C1: under single-flow scheduling, whatever the sequence of acquireSlot
\* calls, usage values and save outcomes, no entity is the resident of two
\* slots: two different slots never name the same non-none resident.
C1_OneSlotPerResident ==
    \A i, j \in SlotIdx :
        (i # j /\ slotsState[i].characterName # NoName)
            => slotsState[i].characterName # slotsState[j].characterName

\* an eviction has just rebound a slot of a pool of two that is full
C1_AfterEviction ==
    /\ Cardinality(SlotIdx) >= 2
    /\ \A i \in SlotIdx : slotsState[i].characterName # NoName
    /\ \E g \in Gens : gen[g].acq \in {"evict", "saved", "save_failed"}

\* C3: when the pool has a free slot and the requested entity owns none,
\* acquireSlot does not evict: no save is issued, the slot it returns was free
\* and is now bound to the entity, and every other slot is as it was.
C3_FreeSlotNeverEvicts ==
    [][\A g \in Gens :
        (/\ AcquireCalled(g)
         /\ FreeSlots(slotsState) # {}
         /\ ~Owns(slotsState, gen'[g].name))
        => /\ ~SaveIssued(g)
           /\ currentSlot' \in FreeSlots(slotsState)
           /\ slotsState'[currentSlot'].characterName = gen'[g].name
           /\ \A i \in SlotIdx \ {currentSlot'} : slotsState'[i] = slotsState[i]]_vars

\* an entity took a free slot while the other resident, with enough usage to be
\* worth saving, stayed where it was
C3_FreeSlotTaken ==
    \E g \in Gens :
        /\ gen[g].acq = "free"
        /\ \E i \in SlotIdx :
            /\ slotsState[i].characterName \notin {NoName, gen[g].name}
            /\ slotsState[i].usage >= MIN_USAGE_FOR_SAVE

\* C4: for every full pool and every entity that owns no slot, the victim
\* acquireSlot picks (the slot it saves, or the slot it rebinds at once) is the
\* slot of strictly minimal usage, on a tie the one of lowest index.
C4_VictimIsLeastUsed ==
    [][\A g \in Gens :
        (/\ AcquireCalled(g)
         /\ FullPool(slotsState)
         /\ ~Owns(slotsState, gen'[g].name))
        => IF SaveIssued(g)
           THEN gen'[g].save[2] = RefVictim(slotsState)
           ELSE currentSlot' = RefVictim(slotsState)]_vars

\* a slot that is not the first one was evicted: a slot before it is in use
C4_LaterSlotEvicted ==
    \E g \in Gens :
        /\ gen[g].acq = "evict"
        /\ currentSlot # NoSlot
        /\ \E i \in SlotIdx : i < currentSlot /\ slotsState[i].usage > 0

\* C5: an eviction issues a save iff the victim's usage is at least
\* MIN_USAGE_FOR_SAVE; below it the victim is rebound at once.  The save is
\* issued for the victim's resident and index, the registry is untouched while
\* it is in flight (the victim is still the resident when it settles), and the
\* slot is rebound in the step in which it settles.
C5_SaveIffWorthSaving ==
    [][\A g \in Gens :
        /\ (/\ AcquireCalled(g)
            /\ FullPool(slotsState)
            /\ ~Owns(slotsState, gen'[g].name))
           => LET v == RefVictim(slotsState)
              IN  /\ SaveIssued(g) <=> slotsState[v].usage >= MIN_USAGE_FOR_SAVE
                  /\ SaveIssued(g) =>
                        /\ gen'[g].save = <<slotsState[v].characterName, v>>
                        /\ slotsState' = slotsState
                  /\ ~SaveIssued(g) => slotsState'[v].characterName = gen'[g].name
        /\ gen[g].pc = "acq_save"
           => /\ slotsState[gen[g].save[2]].characterName = gen[g].save[1]
              /\ gen'[g].pc = "acq_save"
                    => slotsState'[gen[g].save[2]].characterName = gen[g].save[1]
              /\ gen'[g].pc # "acq_save"
                    => slotsState'[gen[g].save[2]].characterName = gen[g].name]_vars

\* the victim was saved and its slot then rebound to the requesting entity
C5_SavedThenRebound ==
    \E g \in Gens :
        /\ gen[g].acq = "saved"
        /\ currentSlot # NoSlot
        /\ slotsState[currentSlot].characterName = gen[g].name

\* C6: when the save of the victim fails, acquireSlot still rebinds the
\* victim's slot to the requesting entity and returns its index; acquireSlot
\* returns no slot exactly when the backend reports zero slots.
C6_FailedSaveStillRebinds ==
    [][\A g \in Gens :
        /\ (gen[g].pc = "acq_save" /\ gen'[g].acq = "save_failed")
           => /\ currentSlot' = gen[g].save[2]
              /\ slotsState'[currentSlot'].characterName = gen[g].name
        /\ AcquireReturned(g)
           => (currentSlot' = NoSlot <=> DOMAIN slotsState = {})]_vars

\* the save failed and the slot went to the requesting entity all the same
C6_ReboundAfterFailedSave ==
    \E g \in Gens :
        /\ gen[g].acq = "save_failed"
        /\ currentSlot # NoSlot
        /\ slotsState[currentSlot] = BoundSlot(gen[g].name)

\* C7: when the requested entity already owns a slot, acquireSlot returns that
\* slot without suspending and the registry is unchanged: no save, no change
\* to any slot's resident, usage or cacheLoaded.
C7_OwnerKeepsSlot ==
    [][\A g \in Gens :
        (AcquireCalled(g) /\ Owns(slotsState, gen'[g].name))
        => /\ ~SaveIssued(g)
           /\ currentSlot' = findCharacterSlotIndex(slotsState, gen'[g].name)
           /\ slotsState' = slotsState]_vars

\* an owner got its slot back with its usage count and loaded cache intact
C7_OwnerReturned ==
    \E g \in Gens :
        /\ gen[g].acq = "owned"
        /\ currentSlot # NoSlot
        /\ slotsState[currentSlot].characterName = gen[g].name
        /\ slotsState[currentSlot].usage > 0
        /\ slotsState[currentSlot].cacheLoaded

\* C8: whenever acquireSlot returns a slot the entity did not own before (a
\* free slot or an evicted one), that slot has resident = the entity,
\* cacheLoaded = false and usage = 0 when the call returns.
C8_NewBindingIsFresh ==
    [][\A g \in Gens :
        (/\ AcquireReturned(g)
         /\ currentSlot' # NoSlot
         /\ slotsState[currentSlot'].characterName # gen'[g].name)
        => /\ slotsState'[currentSlot'].characterName = gen'[g].name
           /\ slotsState'[currentSlot'].cacheLoaded = FALSE
           /\ slotsState'[currentSlot'].usage = 0]_vars

\* a slot was newly bound while another slot holds a used, loaded resident
C8_FreshBinding ==
    \E g \in Gens :
        /\ gen[g].acq \in {"free", "evict", "saved", "save_failed"}
        /\ gen[g].pc = "lookup"
        /\ currentSlot # NoSlot
        /\ slotsState[currentSlot] = BoundSlot(gen[g].name)
        /\ \E i \in SlotIdx \ {currentSlot} :
            slotsState[i].usage > 0 /\ slotsState[i].cacheLoaded

\* C2: a request whose interceptor has acquired a slot for its entity and has
\* yet to use the module-level currentSlot (for the restore, for id_slot) or
\* the index it passed to the restore in flight never finds there a slot whose
\* resident is another entity, however the interceptions overlap.
C2_SlotIsTheRequestsOwn ==
    \A g \in Gens :
        (gen[g].pc \in {"lookup", "load", "params"} /\ gen[g].name # NoName)
        => /\ currentSlot # NoSlot
              => slotsState[currentSlot].characterName = gen[g].name
           /\ gen[g].loadSlot # NoSlot
              => slotsState[gen[g].loadSlot].characterName = gen[g].name

\* C9: once the race of an entity has ended with the timeout outcome, no later
\* entity of the batch is started: none is pinned, none has a generation
\* request issued (its timer is never set).
C9_NothingStartsAfterTimeout ==
    lastRace.won = "timeout"
    => /\ \A k \in BatchIdx : k > lastRace.k => timeoutTimer[k] = "none"
       /\ currentPreloadCharacter = NoName

\* C10: when the orchestrator leaves the step of an entity whose race ended
\* with the timeout outcome, stopGeneration has been called exactly once
\* during that step.
C10_OneAbortOnTimeout ==
    (lastRace.won = "timeout" /\ pl.i = lastRace.k /\ pl.pc # "race")
    => stopCalls = 1

\* the error entries and the succeeded entries of the batch that name an entity
ErrorsOf(name) == {j \in 1..Len(pl.errors) : pl.errors[j][1] = name}
Preloaded(name) == \E j \in 1..Len(pl.preloaded) : pl.preloaded[j] = name

\* C11: once the race of an entity has ended with the timeout outcome, the
\* entity has exactly one error entry, of the timeout category, it is not among
\* the succeeded entities and the orchestrator does not persist its slot.
C11_TimeoutIsOneError ==
    (lastRace.won = "timeout" /\ pl.i = lastRace.k /\ pl.pc # "race")
    => LET name == pl.batch[pl.i]
       IN  /\ Cardinality(ErrorsOf(name)) = 1
           /\ \A j \in ErrorsOf(name) : pl.errors[j][2] = "timeout"
           /\ ~Preloaded(name)
           /\ pl.pc # "save"

\* C12: a cancel click invokes the backend abort (stopGeneration) once in
\* handleCancel; from then on the flag stays set, no entity is pinned, no
\* generation request is issued and no timer is set, and the final status is
\* formatted with the cancelled flag.
C12_CancelStopsTheBatch ==
    [][/\ (~pl.isCancelled /\ pl'.isCancelled) => stopCalls' = stopCalls + 1
       /\ pl.isCancelled
          => /\ pl'.isCancelled
             /\ \A k \in BatchIdx : timeoutTimer[k] = "none" => timeoutTimer'[k] = "none"
             /\ currentPreloadCharacter' \in {currentPreloadCharacter, NoName}
             /\ \A g \in Gens : gen[g].pc = "idle" => gen'[g].pc = "idle"]_vars

\* the batch was cancelled during the generation of an entity that is not the
\* last one: the poller won the race, the loop was left for the final status
C12_CancelledDuringGeneration ==
    /\ pl.pc = "final"
    /\ pl.isCancelled
    /\ lastRace = [k |-> pl.i, won |-> "cancelled"]
    /\ pl.i < Len(pl.batch)
    /\ stopCalls >= 1
    /\ \A k \in BatchIdx : k > pl.i => timeoutTimer[k] = "none"

\* C13: once the race of an entity is decided, whoever won, neither its
\* timeout timer nor its cancellation poller is still pending.
C13_LosersTornDown ==
    lastRace.won # "none"
    => /\ timeoutTimer[lastRace.k] # "pending"
       /\ cancelCheckInterval[lastRace.k] # "active"

\* C14: at every moment at most one generation request issued by the
\* orchestrator is in flight.
C14_OneRequestAtATime ==
    Cardinality({g \in Gens : gen[g].pc # "idle" /\ gen[g].owner # 0}) <= 1

\* C15: outside the race of an entity (before its step, after it whatever the
\* outcome, after the loop and after the call) no override identity is pinned
\* and the per-entity generation handle is cleared.
C15_UnpinnedBetweenSteps ==
    pl.pc # "race"
    => currentPreloadCharacter = NoName /\ pl.currentGenerationTask = 0

\* an entity's step has ended with a generation error and the next entity is
\* being considered
C15_StepEndedWithError ==
    /\ pl.pc = "status1"
    /\ lastRace = [k |-> pl.i - 1, won |-> "error"]
    /\ currentPreloadCharacter = NoName

\* C16: when the generation of an entity completes (and the batch is not
\* cancelled), the slot the orchestrator persists is a slot bound to that
\* entity; when that save settles, either the entity is appended to the
\* succeeded list and the errors are unchanged, or one error entry for it is
\* appended and the succeeded list is unchanged.
C16_PersistsTheEntitysSlot ==
    [][/\ (pl.pc = "race" /\ pl'.pc = "save" /\ lastRace'.won = "completed")
          => /\ pl'.save[1] = pl.batch[pl.i]
             /\ slotsState[pl'.save[2]].characterName = pl.batch[pl.i]
       /\ (pl.pc = "save" /\ pl'.pc # "save")
          => \/ /\ pl'.preloaded = Append(pl.preloaded, pl.save[1])
                /\ pl'.errors = pl.errors
             \/ /\ pl'.errors = Append(pl.errors, <<pl.save[1], "save">>)
                /\ pl'.preloaded = pl.preloaded]_vars

\* the loop was left before its last iteration had ended
LeftEarly(p) == p.batch # <<>> /\ p.i <= Len(p.batch)
TimedOut == \E k \in BatchIdx : timeoutTimer[k] = "fired"
\* the step of an entity has failed in a recoverable way: its generation
\* rejected with an error that is neither an abort nor a timeout, ...
GenerationFailed == pl.pc = "race" /\ pl'.pc # "race" /\ lastRace'.won = "error"
\* ... or the save of its slot reported failure
SaveFailed ==
    pl.pc = "save" /\ pl'.pc # "save" /\ pl'.preloaded = pl.preloaded
\* ... or a status edit inside the per-entity try rejected
EditFailed ==
    /\ pl.pc \in {"status1", "status2"}
    /\ pl'.errors = Append(pl.errors, <<pl.batch[pl.i], "edit">>)
\* the loop goes on with the next entity, or has no entity left
GoesOn ==
    pl'.i = pl.i + 1 /\ pl'.pc \in {"status1", "status_noid", "final"}

\* C17 as claimed: a recoverable failure of an entity appends an error entry
\* and the batch goes on with the next entity; the loop is left early, or the
\* call ends early, only when the batch is cancelled or an entity timed out.
C17_OnlyCancelOrTimeoutEndEarly ==
    [][/\ GenerationFailed
          => /\ pl'.errors = Append(pl.errors, <<pl.batch[pl.i], "gen">>)
             /\ pl'.pc = "status_err"
       /\ SaveFailed
          => /\ pl'.errors = Append(pl.errors, <<pl.save[1], "save">>)
             /\ pl'.pc = "status2" \/ pl.isCancelled
       /\ EditFailed => pl'.pc = "status_err"
       /\ (pl.pc = "status2" /\ pl'.pc # pl.pc) => GoesOn \/ EditFailed
       /\ (pl.pc = "status_err" /\ pl'.pc # pl.pc) => GoesOn
       /\ (pl.pc \notin {"idle", "final", "done"} /\ pl'.pc \in {"final", "done"}
           /\ LeftEarly(pl'))
          => pl'.isCancelled \/ TimedOut']_vars

\* C17 as amended: the same, and besides cancellation and timeout the call
\* also ends early when writing the status message rejects (creating it, the
\* edit for a character without id, the edit in the per-entity catch): the
\* call then rejects.
C17_FailureDoesNotEndTheBatch ==
    [][/\ GenerationFailed
          => /\ pl'.errors = Append(pl.errors, <<pl.batch[pl.i], "gen">>)
             /\ pl'.pc = "status_err"
       /\ SaveFailed
          => /\ pl'.errors = Append(pl.errors, <<pl.save[1], "save">>)
             /\ pl'.pc = "status2" \/ pl.isCancelled
       /\ EditFailed => pl'.pc = "status_err"
       /\ (pl.pc = "status2" /\ pl'.pc # pl.pc) => GoesOn \/ EditFailed
       /\ (pl.pc = "status_err" /\ pl'.pc # pl.pc)
          => GoesOn \/ (pl'.pc = "done" /\ pl'.result = "throw")
       /\ (pl.pc \notin {"idle", "final", "done"} /\ pl'.pc \in {"final", "done"}
           /\ LeftEarly(pl'))
          => pl'.isCancelled \/ TimedOut' \/ pl'.result = "throw"]_vars

\* the first entity's generation or save failed and the second entity's turn
\* has begun
C17_NextEntityAfterFailure ==
    /\ pl.pc = "status1"
    /\ pl.i = 2
    /\ pl.errors \in {<<<<pl.batch[1], kind>>>> : kind \in {"gen", "save"}}
    /\ ~pl.isCancelled
    /\ ~TimedOut

\* this step issues no request and starts neither a timer nor a poller
NothingStarted ==
    /\ \A g \in Gens : gen[g].pc = "idle" => gen'[g].pc = "idle"
    /\ \A k \in BatchIdx :
          /\ timeoutTimer[k] = "none" => timeoutTimer'[k] = "none"
          /\ cancelCheckInterval[k] = "none" => cancelCheckInterval'[k] = "none"

\* C18: when the cancel flag is already set as an entity's turn begins, the
\* entity is skipped at once: the loop is left with nothing listed for it, it
\* is not pinned, and neither for it nor for a later entity is a request
\* issued or a timer started.
C18_CancelledTurnIsSkipped ==
    [][/\ (pl.isCancelled /\ pl'.i = pl.i + 1)
          => /\ pl'.pc = "final"
             /\ pl'.errors = pl.errors /\ pl'.preloaded = pl.preloaded
             /\ currentPreloadCharacter' = NoName
             /\ NothingStarted
       /\ (pl.isCancelled /\ pl.pc = "final")
          => /\ pl'.pc \in {"final", "done"}
             /\ pl'.i = pl.i
             /\ currentPreloadCharacter' = NoName
             /\ NothingStarted]_vars

\* the batch was cancelled while the first entity's status was being edited,
\* and the second entity's turn found the flag set
C18_SecondEntitySkipped ==
    /\ pl.pc = "final" /\ pl.isCancelled
    /\ pl.i = 2 /\ Len(pl.batch) = 2
    /\ timeoutTimer[2] = "none"
    /\ \A j \in 1..Len(pl.errors) : pl.errors[j][1] # pl.batch[2]

\* C19 as claimed: the batch call returns true iff at least one entity was
\* preloaded and persisted, whatever errors, cancellation or timeout there
\* were, and false when none was.
C19_TrueIffSomethingPreloaded ==
    pl.pc = "done"
    => /\ pl.result = "true" <=> Len(pl.preloaded) > 0
       /\ Len(pl.preloaded) = 0 => pl.result = "false"

\* C19 as amended: the same of every call that returns; a call in which
\* writing the status message rejects returns nothing, it rejects.
C19_ReturnedTrueIffSomethingPreloaded ==
    (pl.pc = "done" /\ pl.result # "throw")
    => /\ pl.result = "true" <=> Len(pl.preloaded) > 0
       /\ Len(pl.preloaded) = 0 => pl.result = "false"

\* a cancelled batch with one entity preloaded and one error returned true
C19_TrueDespiteErrorAndCancel ==
    /\ pl.pc = "done" /\ pl.result = "true"
    /\ pl.isCancelled
    /\ Len(pl.errors) > 0
    /\ Len(pl.preloaded) = 1

\* an awaited auto-save settles in this step
AutoSaveSettles == Len(autoSaves') < Len(autoSaves)

\* C20: the auto-save trigger resets the message counter of a (chat,
\* character) to 0 only when the save it awaited reports success; when the
\* save reports failure the counters keep their values, so the counter still
\* holds what the increment left.
C20_CounterResetOnlyOnSuccess ==
    [][/\ AutoSaveSettles
          => messageCounters' =
                IF lastAutoSave'.success
                THEN [messageCounters EXCEPT ![lastAutoSave'.chatId][lastAutoSave'.name] = 0]
                ELSE messageCounters
       /\ \A c \in Chats, n \in Entities :
             (messageCounters[c][n] > 0 /\ messageCounters'[c][n] = 0)
             => /\ AutoSaveSettles
                /\ lastAutoSave' = [chatId |-> c, name |-> n, success |-> TRUE]]_vars

\* a save failed and the counter it was triggered by is still at the interval
C20_FailedSaveKeepsCounter ==
    /\ lastAutoSave.name # NoName
    /\ ~lastAutoSave.success
    /\ autoSaves = <<>>
    /\ messageCounters[lastAutoSave.chatId][lastAutoSave.name] = MaxInterval
    /\ lastAutoSave.chatId # currentChat

\* a message attributed to character n is counted in chat c in this step
MessageCounted(c, n) == messageCounters'[c][n] = messageCounters[c][n] + 1
\* this step issues a save of the slot of character n, counted in chat c
AutoSaveIssued(c, n) ==
    /\ Len(autoSaves') = Len(autoSaves) + 1
    /\ autoSaves'[Len(autoSaves')] =
           [chatId |-> c, name |-> n, slot |-> findCharacterSlotIndex(slotsState, n),
            count |-> messageCounters'[c][n]]

\* C21: once the auto-save of a character has failed (and no save has
\* succeeded since), the next message of that character in the same chat, and
\* every following one, issues another save, provided the character still
\* holds a slot.
C21_RetryOnNextMessage ==
    [][\A c \in Chats, n \in Entities :
          (/\ lastAutoSave = [chatId |-> c, name |-> n, success |-> FALSE]
           /\ MessageCounted(c, n)
           /\ findCharacterSlotIndex(slotsState, n) # NoSlot)
          => AutoSaveIssued(c, n)]_vars

\* a message is counted in this step
MessageStep == messageCounters' # messageCounters /\ ~AutoSaveSettles

\* C22 as claimed: every message of a character raises its counter in the
\* current chat by exactly one and touches no other counter; a save of the
\* character's slot is issued exactly when the counter has then reached the
\* interval.
C22_SaveExactlyAtInterval ==
    [][MessageStep
       => \E n \in Entities :
             /\ messageCounters' = [messageCounters EXCEPT ![currentChat][n] = @ + 1]
             /\ IF messageCounters'[currentChat][n] >= saveInterval
                THEN AutoSaveIssued(currentChat, n)
                ELSE autoSaves' = autoSaves]_vars

\* C22 as amended: the same, the save being issued exactly when the counter
\* has reached the interval and the character holds a slot; a character
\* without a slot is counted and no save is issued for it.
C22_SaveAtIntervalIfResident ==
    [][MessageStep
       => \E n \in Entities :
             /\ messageCounters' = [messageCounters EXCEPT ![currentChat][n] = @ + 1]
             /\ IF /\ messageCounters'[currentChat][n] >= saveInterval
                   /\ findCharacterSlotIndex(slotsState, n) # NoSlot
                THEN AutoSaveIssued(currentChat, n)
                ELSE autoSaves' = autoSaves]_vars

\* the second message of a resident has started the save of its slot, and a
\* character without a slot has been counted past the interval with no save
C22_SavedAtTheInterval ==
    /\ saveInterval = 2
    /\ \E n \in Entities :
          /\ autoSaves = <<[chatId |-> currentChat, name |-> n,
                            slot |-> findCharacterSlotIndex(slotsState, n),
                            count |-> saveInterval]>>
          /\ messageCounters[currentChat][n] = saveInterval
    /\ \E n \in Entities :
          /\ findCharacterSlotIndex(slotsState, n) = NoSlot
          /\ messageCounters[currentChat][n] > saveInterval
    /\ lastAutoSave = NoAutoSave

\* C23: a generation request for which acquireSlot failed is aborted: it is
\* never handed to the backend.
C23_FailedAcquireAbortsGeneration ==
    [][\A g \in Gens :
          (gen[g].pc = "params" /\ gen[g].acq = "fail") => gen'[g].pc # "running"]_vars

\* C24: whenever setSlotForGeneration sets id_slot for a request (currentSlot
\* is not null), the request is one whose interceptor bound a slot to its
\* entity, and the resident of the slot threaded in is that entity.
C24_IdSlotIsTheRequestersSlot ==
    [][\A g \in Gens :
          (gen[g].pc = "params" /\ gen'[g].pc = "running" /\ currentSlot # NoSlot)
          => /\ gen[g].name # NoName
             /\ slotsState[currentSlot].characterName = gen[g].name]_vars

\* acquireSlot returns a slot to the interceptor of request g in this step
AcquireReturns(g) ==
    /\ gen[g].pc \in {"queued", "acq_save"}
    /\ gen'[g].pc \notin {"queued", "acq_save"}
    /\ gen'[g].name # NoName
    /\ currentSlot' # NoSlot

\* C25: when the slot acquired for an entity already has cacheLoaded = true,
\* the interceptor looks up no snapshot and requests no restore: it returns,
\* and a request whose interceptor has returned awaits neither.
C25_LoadedSlotIsNotRestored ==
    [][\A g \in Gens :
          /\ (AcquireReturns(g) /\ slotsState'[currentSlot'].cacheLoaded)
             => gen'[g].pc = "params" /\ gen'[g].loadSlot = NoSlot
          /\ gen[g].pc \in {"params", "running"}
             => gen'[g].pc \notin {"lookup", "load"}]_vars

\* the interceptor of a request has returned with the slot its entity owns,
\* whose cache an earlier generation restored
C25_ReturnedWithLoadedSlot ==
    \E g \in Gens :
        /\ gen[g].pc = "params" /\ gen[g].acq = "owned"
        /\ currentSlot # NoSlot
        /\ slotsState[currentSlot].characterName = gen[g].name
        /\ slotsState[currentSlot].cacheLoaded

\* the slot currentSlot names is bound to the entity of request g and its
\* cache is not loaded
BoundNotLoaded(g) ==
    /\ currentSlot # NoSlot
    /\ slotsState'[currentSlot].characterName = gen[g].name
    /\ ~slotsState'[currentSlot].cacheLoaded

\* C26: a lookup that finds no snapshot (or throws) and a restore that fails
\* do not block the generation: the interceptor returns with the registry
\* untouched, the slot still bound to the entity and its cacheLoaded false,
\* and the request then runs with that slot as id_slot.
C26_RestoreFailureDoesNotBlock ==
    [][\A g \in Gens :
          /\ (gen[g].pc = "lookup" /\ gen'[g].pc \notin {"lookup", "load"})
             => /\ gen'[g].pc = "params"
                /\ slotsState' = slotsState
                /\ BoundNotLoaded(g)
          /\ (gen[g].pc = "load" /\ gen'[g].pc # "load"
              /\ ~slotsState'[gen[g].loadSlot].cacheLoaded)
             => /\ gen'[g].pc = "params"
                /\ slotsState' = slotsState
                /\ BoundNotLoaded(g)
          /\ (gen[g].pc = "params" /\ gen[g].name # NoName /\ currentSlot # NoSlot
              /\ gen'[g] # gen[g])
             => /\ gen'[g].pc = "running"
                /\ slotsState[currentSlot].characterName = gen[g].name]_vars

\* a request runs on the slot bound to its entity although no snapshot was
\* restored into it
C26_RunsWithoutRestoredCache ==
    \E g \in Gens :
        /\ gen[g].pc = "running" /\ gen[g].name # NoName
        /\ currentSlot # NoSlot
        /\ slotsState[currentSlot].characterName = gen[g].name
        /\ ~slotsState[currentSlot].cacheLoaded

\* C27: a restore that succeeded sets the slot's cacheLoaded to true and its
\* usage to 0 and changes nothing else; a restore that failed changes nothing.
C27_RestoreSetsLoadedAndResetsUsage ==
    [][\A g \in Gens :
          (gen[g].pc = "load" /\ gen'[g].pc # "load")
          => LET s == gen[g].loadSlot
             IN  /\ gen'[g].loaded \in {"yes", "no"}
                 /\ gen'[g].loaded = "yes"
                    => slotsState' = [slotsState EXCEPT ![s].cacheLoaded = TRUE,
                                                        ![s].usage = 0]
                 /\ gen'[g].loaded = "no" => slotsState' = slotsState]_vars

\* a snapshot has been restored into the slot of a request's entity
C27_Restored ==
    \E g \in Gens :
        /\ gen[g].pc = "params" /\ gen[g].loaded = "yes"
        /\ currentSlot # NoSlot
        /\ slotsState[currentSlot].characterName = gen[g].name
        /\ slotsState[currentSlot].cacheLoaded
        /\ slotsState[currentSlot].usage = 0

\* C28: a save that settles resets the usage of the slot it saved to 0 when it
\* succeeded and leaves the registry alone when it failed; in every other
\* step the usage of a slot that keeps its resident does not decrease.
C28_UsageResetOnlyBySuccessfulSave ==
    [][/\ AutoSaveSettles
          => \E j \in 1..Len(autoSaves) :
                /\ autoSaves' = RemoveAt(autoSaves, j)
                /\ lastAutoSave'.name = autoSaves[j].name
                /\ slotsState' = IF lastAutoSave'.success
                                 THEN [slotsState EXCEPT ![autoSaves[j].slot].usage = 0]
                                 ELSE slotsState
       /\ ~AutoSaveSettles
          => \A s \in DOMAIN slotsState :
                slotsState'[s].characterName = slotsState[s].characterName
                => slotsState'[s].usage >= slotsState[s].usage]_vars

\* a save of a slot failed and the slot still has its full usage count
C28_FailedSaveKeepsUsage ==
    /\ lastAutoSave.name # NoName
    /\ ~lastAutoSave.success
    /\ LET s == findCharacterSlotIndex(slotsState, lastAutoSave.name)
       IN  s # NoSlot /\ slotsState[s].usage = MaxUsage

\* The names a snapshot of characterName saved at time t in the conversation
\* chatId can have, and the latest such snapshots on disk.
SavedAs(chatId, t, characterName) ==
    {generateSaveFilename(chatId, Stamps[t], characterName, tag) : tag \in FileTags}
Latest(chatId, characterName) ==
    {f \in files : \E t \in Times :
        /\ f \in SavedAs(chatId, t, characterName)
        /\ \A u \in Times : u > t => SavedAs(chatId, u, characterName) \cap files = {}}

\* C29: the snapshot getLastCacheForCharacter selects for restoring is the
\* most recent one, by timestamp, among the snapshots of the same entity in the
\* current conversation; a snapshot of a different entity or of a different
\* conversation is never selected.
C29_RestoresLatestOwnSnapshot ==
    (fileOp.op = "lookup" /\ fileOp.filename # NoFile)
        => fileOp.filename \in Latest(fileOp.chatId, fileOp.characterName)

\* The times of the untagged snapshots among the files F that were saved for
\* characterName in the conversation chatId, and the n latest of a set of times.
UntaggedTimes(F, chatId, characterName) ==
    {t \in Times : generateSaveFilename(chatId, Stamps[t], characterName, NoTag) \in F}
Recent(T, n) == {t \in T : Cardinality({u \in T : u > t}) < n}
\* A call of rotateCharacterFiles that listed the directory and whose deletions
\* all succeeded returns.
RotationCompleted ==
    fileOp'.op = "rotate" /\ fileOp'.complete /\ currentChat' = currentChat

\* C30: after rotateCharacterFiles completes for an entity, the untagged
\* snapshots of that entity in the current conversation that remain are exactly
\* the N = maxFiles with the greatest timestamps; with N or fewer of them none
\* is deleted.
C30_KeepsTheNMostRecent ==
    [][RotationCompleted =>
          UntaggedTimes(files', getNormalizedChatId, fileOp'.characterName)
              = Recent(UntaggedTimes(files, getNormalizedChatId, fileOp'.characterName),
                       fileOp'.maxFiles)]_vars

\* A call of rotateCharacterFiles returns, whatever became of its listing and
\* of its deletions.
RotationReturned == fileOp'.op = "rotate" /\ currentChat' = currentChat
\* f is an untagged snapshot saved for characterName in the conversation chatId.
IsAutoSaveOf(f, chatId, characterName) ==
    \E t \in Times : f = generateSaveFilename(chatId, Stamps[t], characterName, NoTag)

\* C31: rotation for an entity in the current conversation deletes nothing but
\* untagged snapshots of that entity in that conversation: never a tagged
\* snapshot, whatever its age or their number, and never a snapshot of another
\* conversation or of another entity; and it adds no file.
C31_RotationDeletesOnlyOwnAutoSaves ==
    [][RotationReturned =>
          /\ files' \subseteq files
          /\ \A f \in files \ files' :
                 IsAutoSaveOf(f, getNormalizedChatId, fileOp'.characterName)]_vars

\* A rotation has deleted a snapshot and left a tagged snapshot of the same
\* entity and conversation that is the oldest file of the directory.
C31_TaggedSurvivedRotation ==
    /\ fileOp.op = "rotate"
    /\ fileOp.deletedCount > 0
    /\ LET tagged == generateSaveFilename(getNormalizedChatId, Stamps[1],
                                          fileOp.characterName, <<"v1">>)
       IN  /\ tagged \in files
           /\ \A f \in files \ {tagged} :
                  parseSaveFilename(f).ok /\ TimeOf(parseSaveFilename(f).timestamp) > 1

\* C32: the interceptor works for the pinned character iff the generation is
\* quiet, preloading mode is on and a pin is set; in every other case for the
\* character the conversation context names; and a quiet generation outside
\* preloading mode or an impersonate generation acquires no slot, restores
\* nothing and leaves the registry as it was.
C32_EntityFromPinOrContext ==
    [][\A g \in Gens, ctx \in Entities \cup {NoName} :
          (gen[g].pc = "queued" /\ InterceptEnter(g, ctx)) =>
              LET type == gen[g].type
                  pinned == type = "quiet" /\ isPreloading /\ currentPreloadCharacter # NoName
                  who == IF pinned THEN currentPreloadCharacter ELSE ctx
              IN  IF type = "impersonate" \/ (type = "quiet" /\ ~isPreloading) \/ who = NoName
                  THEN /\ gen'[g].name = NoName
                       /\ gen'[g].acq = "none"
                       /\ gen'[g].pc = "params"
                       /\ UNCHANGED <<slotsState, currentSlot>>
                  ELSE /\ gen'[g].name = who
                       /\ gen'[g].acq # "none" \/ gen'[g].pc = "acq_save"]_vars

\* During a preload a quiet generation has acquired a slot under the pinned
\* name.
C32_QuietServedUnderThePin ==
    /\ isPreloading
    /\ currentPreloadCharacter # NoName
    /\ \E g \in Gens :
           /\ gen[g].pc = "lookup"
           /\ gen[g].type = "quiet"
           /\ gen[g].name = currentPreloadCharacter

\* C33: the orchestrator calls stopGeneration only on a cancellation or timeout
\* outcome: when the generation of an entity has completed and the batch is not
\* cancelled, no stopGeneration call has been made during that entity's step.
C33_NoAbortAfterCompletion ==
    (lastRace.won = "completed" /\ pl.i = lastRace.k /\ pl.pc # "race" /\ ~pl.isCancelled)
    => stopCalls = 0

\* C34: every saveCharacterCache call the orchestrator issues under the name of
\* an entity targets a slot whose resident, at the time of the call, is that
\* entity: the index read back from the interceptor is never one left by an
\* earlier entity or an earlier generation.
C34_PreloadSavesTheEntitysSlot ==
    [][(pl.pc # "save" /\ pl'.pc = "save")
          => /\ pl'.save[1] = pl.batch[pl.i]
             /\ pl'.save[2] \in DOMAIN slotsState'
             /\ slotsState'[pl'.save[2]].characterName = pl'.save[1]]_vars

\* C35: once isCancelled is set the orchestrator starts no saveCharacterCache
\* call, and only a save that was already in flight adds its entity to the
\* succeeded list, whether the generation promise or the cancellation poller
\* settles first.
C35_NoSaveStartsAfterCancel ==
    [][pl.isCancelled
          => /\ pl'.pc = "save" => pl.pc = "save"
             /\ pl.pc # "save" => pl'.preloaded = pl.preloaded]_vars

\* a call of preloadCharactersCache is past its validation and not yet returned
BatchRunning(p) == p.pc \notin {"idle", "done"}

\* C36: preloading mode is on as long as a preload batch is running, also when
\* two batches overlap, and is off, with the pin cleared, when none is: before
\* a batch, after it has ended on whatever path, and after a call that left at
\* its validation.
C36_PreloadingModeWhileABatchRuns ==
    /\ (BatchRunning(pl) \/ pl2 = "running") => isPreloading
    /\ (~BatchRunning(pl) /\ pl2 # "running")
           => (~isPreloading /\ currentPreloadCharacter = NoName)

\* C37: when handlers of messages of the same character in the same chat
\* overlap, at most one auto-save of that character is in flight at a time, and
\* the reset after a successful save keeps the messages that were counted while
\* the save was in flight.
C37_OneSaveInFlightNoMessageLost ==
    [][/\ \A i, j \in 1..Len(autoSaves') :
             i < j => \/ autoSaves'[i].chatId # autoSaves'[j].chatId
                      \/ autoSaves'[i].name # autoSaves'[j].name
       /\ \A j \in 1..Len(autoSaves) :
             (AutoSaveSettles /\ autoSaves' = RemoveAt(autoSaves, j) /\ lastAutoSave'.success)
             => LET call == autoSaves[j]
                IN  messageCounters'[call.chatId][call.name]
                        = messageCounters[call.chatId][call.name] - call.count]_vars

\* saveSlotCache returns in this step / saveCharacterCache returns in this step
SaveValidated == fileOp.op # "validated" /\ fileOp'.op = "validated"
SaveReturned == fileOp.op = "validated" /\ fileOp'.op = "saved"
\* what a save that was reported as failed leaves alone, and what a save that
\* was reported as successful does
CallerSkipsOrResets ==
    SaveReturned
    => IF fileOp.success
       THEN fileOp'.success /\ slotsState'[fileOp.slot].usage = 0
       ELSE ~fileOp'.success /\ UNCHANGED <<files, slotsState>>

C39_NamingRoundTrips ==
    fileOp.op = "parse"
    => fileOp.parsed = [chatId |-> fileOp.chatId, timestamp |-> fileOp.timestamp,
                        tag |-> fileOp.tag, characterName |-> fileOp.characterName,
                        ok |-> TRUE]

====
